---- MODULE Spec2Model ----
(***************************************************************************)
(* rateflow: four rate-limiting engines (token bucket, leaky bucket,       *)
(* sliding window, fixed window) behind one Limiter interface.             *)
(*                                                                         *)
(* Time is counted in ticks.  A time.Time is a tick count since the zero   *)
(* time, a time.Duration a (signed) number of ticks.  Durations are        *)
(* integers in Go (int64 nanoseconds); the conversion time.Duration(f) of  *)
(* a float truncates toward zero and is modelled by Trunc.  The float64    *)
(* token count of the token bucket is kept as an exact fixed-point number: *)
(* the field tokens holds tokens * Second, so that limit * elapsed ticks   *)
(* is the exact replenishment (float rounding is not modelled).            *)
(***************************************************************************)
EXTENDS Integers, Sequences, FiniteSets, TLC

(* ---- time units and the Inf sentinel (scaled: TLC integers are small) -- *)
Nanosecond == 1
Millisecond == 1
Second == 2
MaxFloat64 == 1000000
Inf == MaxFloat64

(* ---- bounds of the model ---------------------------------------------- *)
MaxBurst == 2
MaxTime == 3
MaxExtra == 1
MaxLag == 1
NumProcs == 2

Procs == 1..NumProcs
Algorithms == {"TokenBucket", "LeakyBucket", "SlidingWindow", "FixedWindow"}
Bursts == 1..MaxBurst
Units == 1..(MaxBurst + 1)
FiniteRates == {0, 1, 2}
Rates == FiniteRates \cup {Inf}
NonPositiveRates == {-1, 0}
PositiveRates == FiniteRates \ {0}
AllRates == Rates \cup NonPositiveRates

\* The timestamps a caller may pass at clock reading t: current or historical.
Stamps(t) == (IF t > MaxLag THEN t - MaxLag ELSE 0)..t

(* ---- arithmetic helpers ------------------------------------------------ *)
Abs(a) == IF a < 0 THEN -a ELSE a

Min(a, b) == IF a <= b THEN a ELSE b

Max(a, b) == IF a >= b THEN a ELSE b

\* Go's float-to-integer conversion of a / b: truncation toward zero.
Trunc(a, b) == IF (a >= 0) = (b > 0) THEN Abs(a) \div Abs(b) ELSE -(Abs(a) \div Abs(b))

\* time.Time.Truncate(d): t rounded down to a multiple of d; t itself if d <= 0.
Truncate(t, d) == IF d <= 0 THEN t ELSE t - (t % d)

\* s followed by n copies of t (the append loops of the engines).
RECURSIVE AppendN(_, _, _)
AppendN(s, t, n) == IF n <= 0 THEN s ELSE AppendN(Append(s, t), t, n - 1)

\* s without its first k elements (the Go slice s[k:]).
DropFirst(s, k) == SubSeq(s, k + 1, Len(s))

(* ---- engine state ----------------------------------------------------- *)
(* One record holds the fields of all four engine structs; an engine uses  *)
(* its own fields and leaves the others at their zero values.  burst is   *)
(* TokenBucketLimiter.burst, LeakyBucketLimiter.capacity and the window    *)
(* engines' maxCount.                                                      *)
ZeroLimiter == [algo |-> "TokenBucket", limit |-> 0, burst |-> 0,
                tokens |-> 0, lastUpdated |-> 0,
                queue |-> << >>, lastLeakTime |-> 0,
                timestamps |-> << >>, window |-> 0,
                currentCount |-> 0, windowStart |-> 0]

\* window := time.Second; if r > 0 { window = Duration(Second * maxCount / r) }
WindowFor(r, maxCount, old) == IF r > 0 THEN Trunc(Second * maxCount, r) ELSE old

NewTokenBucket(r, b, t0) ==
    [ZeroLimiter EXCEPT !.algo = "TokenBucket", !.limit = r, !.burst = b,
                        !.tokens = b * Second, !.lastUpdated = t0]

NewLeakyBucket(r, b, t0) ==
    [ZeroLimiter EXCEPT !.algo = "LeakyBucket", !.limit = r, !.burst = b,
                        !.lastLeakTime = t0]

NewSlidingWindow(r, b, t0) ==
    [ZeroLimiter EXCEPT !.algo = "SlidingWindow", !.limit = r, !.burst = b,
                        !.window = WindowFor(r, b, Second)]

NewFixedWindow(r, b, t0) ==
    [ZeroLimiter EXCEPT !.algo = "FixedWindow", !.limit = r, !.burst = b,
                        !.window = WindowFor(r, b, Second), !.windowStart = t0]

NewLimiter(a, r, b, t0) ==
    CASE a = "TokenBucket" -> NewTokenBucket(r, b, t0)
      [] a = "LeakyBucket" -> NewLeakyBucket(r, b, t0)
      [] a = "SlidingWindow" -> NewSlidingWindow(r, b, t0)
      [] a = "FixedWindow" -> NewFixedWindow(r, b, t0)
      [] OTHER -> NewTokenBucket(r, b, t0)

(* ---- Reservation ------------------------------------------------------ *)
NotOK == [ok |-> FALSE, tokens |-> 0, timeToAct |-> 0, limit |-> 0]

Reserved(l, n, at) == [ok |-> TRUE, tokens |-> n, timeToAct |-> at, limit |-> l.limit]

\* A DelayFrom without the clamp at zero.
DelayFrom_Signed(r, t) == IF ~r.ok THEN -1 ELSE r.timeToAct - t

DelayFrom(r, t) ==
    IF ~r.ok THEN -1
    ELSE LET delay == r.timeToAct - t
         IN  IF delay < 0 THEN 0 ELSE delay

\* A CancelAt that gives an ok reservation's units back to a token bucket.
CancelAt_Restores(r, l, t) ==
    IF r.ok /\ l.algo = "TokenBucket" THEN [l EXCEPT !.tokens = @ + r.tokens * Second] ELSE l

\* CancelAt restores nothing: the engine state after it is the state before.
CancelAt(r, l, t) == l

(* ---- advancing the bookkeeping ----------------------------------------- *)
(* leak panics when its leakCount is negative (the slice expression       *)
(* queue[leakCount:]); the state is then what the assignments before the   *)
(* panic left.                                                             *)
\* A faulty variant of TokenBucket_advance: it credits the elapsed time but
\* does not move lastUpdated, so the same interval is credited again.
TokenBucket_advance_KeepStamp(l, now) ==
    LET elapsed == now - l.lastUpdated
    IN  IF l.limit = MaxFloat64
        THEN [l EXCEPT !.tokens = l.burst * Second]
        ELSE [l EXCEPT !.tokens = Min(l.tokens + l.limit * elapsed, l.burst * Second)]

TokenBucket_advance(l, now) ==
    LET elapsed == now - l.lastUpdated
    IN  IF l.limit = MaxFloat64
        THEN [l EXCEPT !.lastUpdated = now, !.tokens = l.burst * Second]
        ELSE [l EXCEPT !.lastUpdated = now,
                       !.tokens = Min(l.tokens + l.limit * elapsed, l.burst * Second)]

LeakyBucket_leakCount(l, now) ==
    Min(Trunc(l.limit * (now - l.lastLeakTime), Second), Len(l.queue))

LeakyBucket_leakPanics(l, now) ==
    /\ l.limit # MaxFloat64
    /\ Len(l.queue) # 0
    /\ LeakyBucket_leakCount(l, now) < 0

LeakyBucket_leak(l, now) ==
    IF l.limit = MaxFloat64 \/ Len(l.queue) = 0
    THEN l
    ELSE IF LeakyBucket_leakCount(l, now) < 0
         THEN [l EXCEPT !.lastLeakTime = now]
         ELSE [l EXCEPT !.lastLeakTime = now,
                        !.queue = DropFirst(l.queue, LeakyBucket_leakCount(l, now))]

RECURSIVE ValidIdx(_, _, _)
ValidIdx(ts, cutoff, i) ==
    IF i < Len(ts) /\ ts[i + 1] < cutoff THEN ValidIdx(ts, cutoff, i + 1) ELSE i

\* A faulty variant of SlidingWindow_cleanup: it also drops the entry that
\* is exactly one window old (!After(cutoff) in place of Before(cutoff)).
SlidingWindow_cleanup_DropsBoundary(l, now) ==
    [l EXCEPT !.timestamps =
        DropFirst(l.timestamps, ValidIdx(l.timestamps, now - l.window + 1, 0))]

SlidingWindow_cleanup(l, now) ==
    [l EXCEPT !.timestamps = DropFirst(l.timestamps, ValidIdx(l.timestamps, now - l.window, 0))]

\* A faulty variant of FixedWindow_resetIfNeeded: on a new window it moves
\* windowStart but keeps the counter.
FixedWindow_resetIfNeeded_KeepsCount(l, now) ==
    IF now - l.windowStart >= l.window
    THEN [l EXCEPT !.windowStart = Truncate(now, l.window)]
    ELSE l

FixedWindow_resetIfNeeded(l, now) ==
    IF now - l.windowStart >= l.window
    THEN [l EXCEPT !.currentCount = 0, !.windowStart = Truncate(now, l.window)]
    ELSE l

\* The advance every operation starts with, by engine.
Advance(l, now) ==
    CASE l.algo = "TokenBucket" -> TokenBucket_advance(l, now)
      [] l.algo = "LeakyBucket" -> LeakyBucket_leak(l, now)
      [] l.algo = "SlidingWindow" -> SlidingWindow_cleanup(l, now)
      [] l.algo = "FixedWindow" -> FixedWindow_resetIfNeeded(l, now)

Panics(l, now) == l.algo = "LeakyBucket" /\ LeakyBucket_leakPanics(l, now)

(* ---- the operations, as functions of the engine state ------------------ *)
(* Each returns [lim, panic, ok, r, val]: the state after the critical     *)
(* section, whether it panicked, AllowN's result, ReserveN's Reservation   *)
(* and TokensAt's value (tokens * Second for the token bucket, whole slots *)
(* * Second for the others, so that the four are comparable).              *)
Result(l, ok, r, val) == [lim |-> l, panic |-> FALSE, ok |-> ok, r |-> r, val |-> val]

Panicked(l) == [lim |-> l, panic |-> TRUE, ok |-> FALSE, r |-> NotOK, val |-> 0]

TokenBucket_AllowN(l, t, n) ==
    LET a == TokenBucket_advance(l, t)
    IN  IF a.tokens >= n * Second
        THEN Result([a EXCEPT !.tokens = @ - n * Second], TRUE, NotOK, 0)
        ELSE Result(a, FALSE, NotOK, 0)

\* A faulty variant of TokenBucket_waitDuration: it waits only when the
\* bucket is already in deficit, not when the tokens fall short of n.
TokenBucket_waitDuration_DeficitOnly(a, n) ==
    IF a.tokens < 0 /\ a.limit > 0
    THEN Trunc(n * Second - a.tokens, a.limit) + Nanosecond
    ELSE 0

\* waitDuration of TokenBucketLimiter.ReserveN, from the advanced state a.
TokenBucket_waitDuration(a, n) ==
    IF a.tokens < n * Second /\ a.limit > 0
    THEN Trunc(n * Second - a.tokens, a.limit) + Nanosecond
    ELSE 0

\* A faulty variant of TokenBucket_ReserveN: it deducts the units before it
\* tests them against the burst.
TokenBucket_ReserveN_DeductFirst(l, t, n) ==
    LET a == TokenBucket_advance(l, t)
        d == [a EXCEPT !.tokens = @ - n * Second]
    IN  IF n > a.burst
        THEN Result(d, FALSE, NotOK, 0)
        ELSE Result(d, TRUE, Reserved(a, n, t + TokenBucket_waitDuration(a, n)), 0)

TokenBucket_ReserveN(l, t, n) ==
    LET a == TokenBucket_advance(l, t)
    IN  IF n > a.burst
        THEN Result(a, FALSE, NotOK, 0)
        ELSE Result([a EXCEPT !.tokens = @ - n * Second], TRUE,
                    Reserved(a, n, t + TokenBucket_waitDuration(a, n)), 0)

\* A faulty AllowN that admits one unit more than fits.
LeakyBucket_AllowN_OneTooMany(l, t, n) ==
    LET a == LeakyBucket_leak(l, t)
    IN  IF LeakyBucket_leakPanics(l, t)
        THEN Panicked(a)
        ELSE IF Len(a.queue) + n <= a.burst + 1
             THEN Result([a EXCEPT !.queue = AppendN(@, t, n)], TRUE, NotOK, 0)
             ELSE Result(a, FALSE, NotOK, 0)

LeakyBucket_AllowN(l, t, n) ==
    LET a == LeakyBucket_leak(l, t)
    IN  IF LeakyBucket_leakPanics(l, t)
        THEN Panicked(a)
        ELSE IF Len(a.queue) + n <= a.burst
             THEN Result([a EXCEPT !.queue = AppendN(@, t, n)], TRUE, NotOK, 0)
             ELSE Result(a, FALSE, NotOK, 0)

\* waitDuration of LeakyBucketLimiter.ReserveN, from the leaked state a.
LeakyBucket_waitDuration(a, n) ==
    IF Len(a.queue) + n > a.burst /\ a.limit > 0
    THEN Trunc((Len(a.queue) + n - a.burst) * Second, a.limit) + Nanosecond
    ELSE 0

LeakyBucket_ReserveN(l, t, n) ==
    LET a == LeakyBucket_leak(l, t)
    IN  IF LeakyBucket_leakPanics(l, t)
        THEN Panicked(a)
        ELSE IF n > a.burst
             THEN Result(a, FALSE, NotOK, 0)
             ELSE Result([a EXCEPT !.queue = AppendN(@, t, n)], TRUE,
                         Reserved(a, n, t + LeakyBucket_waitDuration(a, n)), 0)

SlidingWindow_AllowN(l, t, n) ==
    LET a == SlidingWindow_cleanup(l, t)
    IN  IF Len(a.timestamps) + n <= a.burst
        THEN Result([a EXCEPT !.timestamps = AppendN(@, t, n)], TRUE, NotOK, 0)
        ELSE Result(a, FALSE, NotOK, 0)

\* A ReserveN that promises the units one window later when AllowN refuses.
SlidingWindow_ReserveN_Promises(l, t, n) ==
    LET res == SlidingWindow_AllowN(l, t, n)
    IN  IF res.ok THEN Result(res.lim, TRUE, Reserved(res.lim, n, t), 0)
                  ELSE Result(res.lim, FALSE, Reserved(res.lim, n, t + l.window), 0)

\* The Reservation's limit field is read after AllowN has released the lock;
\* here it is the limit AllowN saw (the field is never read again).
SlidingWindow_ReserveN(l, t, n) ==
    LET res == SlidingWindow_AllowN(l, t, n)
    IN  IF res.ok THEN Result(res.lim, TRUE, Reserved(res.lim, n, t), 0)
                  ELSE Result(res.lim, FALSE, NotOK, 0)

FixedWindow_AllowN(l, t, n) ==
    LET a == FixedWindow_resetIfNeeded(l, t)
    IN  IF a.currentCount + n <= a.burst
        THEN Result([a EXCEPT !.currentCount = @ + n], TRUE, NotOK, 0)
        ELSE Result(a, FALSE, NotOK, 0)

FixedWindow_ReserveN(l, t, n) ==
    LET res == FixedWindow_AllowN(l, t, n)
    IN  IF res.ok THEN Result(res.lim, TRUE, Reserved(res.lim, n, t), 0)
                  ELSE Result(res.lim, FALSE, NotOK, 0)

AllowN(l, t, n) ==
    CASE l.algo = "TokenBucket" -> TokenBucket_AllowN(l, t, n)
      [] l.algo = "LeakyBucket" -> LeakyBucket_AllowN(l, t, n)
      [] l.algo = "SlidingWindow" -> SlidingWindow_AllowN(l, t, n)
      [] l.algo = "FixedWindow" -> FixedWindow_AllowN(l, t, n)

ReserveN(l, t, n) ==
    CASE l.algo = "TokenBucket" -> TokenBucket_ReserveN(l, t, n)
      [] l.algo = "LeakyBucket" -> LeakyBucket_ReserveN(l, t, n)
      [] l.algo = "SlidingWindow" -> SlidingWindow_ReserveN(l, t, n)
      [] l.algo = "FixedWindow" -> FixedWindow_ReserveN(l, t, n)

\* Remaining capacity of an already advanced state, times Second.
Remaining(a) ==
    CASE a.algo = "TokenBucket" -> a.tokens
      [] a.algo = "LeakyBucket" -> (a.burst - Len(a.queue)) * Second
      [] a.algo = "SlidingWindow" -> (a.burst - Len(a.timestamps)) * Second
      [] a.algo = "FixedWindow" -> (a.burst - a.currentCount) * Second

TokensAt(l, t) ==
    IF Panics(l, t) THEN Panicked(Advance(l, t))
    ELSE Result(Advance(l, t), FALSE, NotOK, Remaining(Advance(l, t)))

\* The getters: Limit() and Burst() return the stored fields.
Limit(l) == l.limit

Burst(l) == l.burst

\* A SetLimitAt that recomputes the window but does not store the rate.
SetLimitAt_WindowOnly(l, t, newLimit) ==
    LET a == Advance(l, t)
    IN  IF Panics(l, t) THEN Panicked(a)
        ELSE IF a.algo \in {"SlidingWindow", "FixedWindow"}
             THEN Result([a EXCEPT !.window = WindowFor(newLimit, a.burst, a.window)],
                         FALSE, NotOK, 0)
             ELSE Result(a, FALSE, NotOK, 0)

SetLimitAt(l, t, newLimit) ==
    LET a == Advance(l, t)
    IN  IF Panics(l, t) THEN Panicked(a)
        ELSE IF a.algo \in {"SlidingWindow", "FixedWindow"}
             THEN Result([a EXCEPT !.limit = newLimit,
                                   !.window = WindowFor(newLimit, a.burst, a.window)],
                         FALSE, NotOK, 0)
             ELSE Result([a EXCEPT !.limit = newLimit], FALSE, NotOK, 0)

\* A SetBurstAt that stores the new burst and touches nothing else.
SetBurstAt_StoresOnly(l, t, newBurst) ==
    LET a == Advance(l, t)
    IN  IF Panics(l, t) THEN Panicked(a)
        ELSE Result([a EXCEPT !.burst = newBurst], FALSE, NotOK, 0)

SetBurstAt(l, t, newBurst) ==
    LET a == Advance(l, t)
    IN  IF Panics(l, t) THEN Panicked(a)
        ELSE CASE a.algo = "TokenBucket" ->
                    Result([a EXCEPT !.burst = newBurst,
                                     !.tokens = Min(@, newBurst * Second)], FALSE, NotOK, 0)
               [] a.algo = "LeakyBucket" ->
                    Result([a EXCEPT !.burst = newBurst,
                                     !.queue = SubSeq(@, 1, Min(Len(@), newBurst))],
                           FALSE, NotOK, 0)
               [] OTHER ->
                    Result([a EXCEPT !.burst = newBurst,
                                     !.window = WindowFor(a.limit, newBurst, a.window)],
                           FALSE, NotOK, 0)

(* The critical section(s) of WaitN up to its first suspension point.      *)
(* Token and leaky bucket reserve at the caller's clock reading t and go   *)
(* on to compute the delay; the window engines read the clock under the    *)
(* lock (t is that reading) and either admit, or compute when to retry.    *)
(* how: "exceeds" | "nil" | "delay" | "sleep".                              *)
WaitResult(res, how, deadline) ==
    [lim |-> res.lim, panic |-> res.panic, how |-> how, r |-> res.r, deadline |-> deadline]

\* A WaitN that obtains its Reservation without committing it.
ReservingWaitN_NoCommit(l, t, n) ==
    LET res == ReserveN(l, t, n)
    IN  WaitResult([res EXCEPT !.lim = Advance(l, t)],
                   IF res.r.ok THEN "delay" ELSE "exceeds", 0)

ReservingWaitN(l, t, n) ==
    LET res == ReserveN(l, t, n)
    IN  WaitResult(res, IF res.r.ok THEN "delay" ELSE "exceeds", 0)

SlidingWindow_waitUntil(a, n) ==
    a.timestamps[Min(Len(a.timestamps) + n - a.burst, Len(a.timestamps))]
        + a.window + Millisecond

SlidingWindow_WaitN(l, t, n) ==
    LET a == SlidingWindow_cleanup(l, t)
    IN  IF n > a.burst
        THEN WaitResult(Result(a, FALSE, NotOK, 0), "exceeds", 0)
        ELSE IF Len(a.timestamps) + n > a.burst
             THEN WaitResult(Result(a, FALSE, NotOK, 0), "sleep", SlidingWindow_waitUntil(a, n))
             ELSE WaitResult(Result([a EXCEPT !.timestamps = AppendN(@, t, n)], TRUE, NotOK, 0),
                             "nil", 0)

\* A faulty variant of FixedWindow_WaitN: it waits for the next window as
\* soon as the request would fill the window (>= in place of >).
FixedWindow_WaitN_OffByOne(l, t, n) ==
    LET a == FixedWindow_resetIfNeeded(l, t)
    IN  IF n > a.burst
        THEN WaitResult(Result(a, FALSE, NotOK, 0), "exceeds", 0)
        ELSE IF a.currentCount + n >= a.burst
             THEN WaitResult(Result(a, FALSE, NotOK, 0), "sleep", a.windowStart + a.window)
             ELSE WaitResult(Result([a EXCEPT !.currentCount = @ + n], TRUE, NotOK, 0),
                             "nil", 0)

FixedWindow_WaitN(l, t, n) ==
    LET a == FixedWindow_resetIfNeeded(l, t)
    IN  IF n > a.burst
        THEN WaitResult(Result(a, FALSE, NotOK, 0), "exceeds", 0)
        ELSE IF a.currentCount + n > a.burst
             THEN WaitResult(Result(a, FALSE, NotOK, 0), "sleep", a.windowStart + a.window)
             ELSE WaitResult(Result([a EXCEPT !.currentCount = @ + n], TRUE, NotOK, 0),
                             "nil", 0)

Reserving(l) == l.algo \in {"TokenBucket", "LeakyBucket"}

WaitN(l, t, n) ==
    CASE l.algo = "SlidingWindow" -> SlidingWindow_WaitN(l, t, n)
      [] l.algo = "FixedWindow" -> FixedWindow_WaitN(l, t, n)
      [] OTHER -> ReservingWaitN(l, t, n)

(* ---- the program state ------------------------------------------------- *)
VARIABLES
    lim,        \* the limiter (the engine struct's fields)
    now,        \* the clock time.Now() reads
    mu,         \* the engine's mutex: 0 when free, else the caller holding it
    pc,         \* each caller's position
    call,       \* each caller's arguments and locals of the call in progress
    ret,        \* each caller's last return value
    granted,    \* history: units granted, by the instant they count from
    committed,  \* history: units ever deducted from the engine
    mark        \* history: token bucket state after the last non-query operation

vars == <<lim, now, mu, pc, call, ret, granted, committed, mark>>

ZeroCall == [t |-> 0, n |-> 0, v |-> 0, done |-> FALSE, pre |-> FALSE,
             r |-> NotOK, deadline |-> 0, slept |-> FALSE, exh |-> FALSE]

ZeroRet == [op |-> "none", t |-> 0, n |-> 0, ok |-> FALSE, err |-> "none", val |-> 0,
            r |-> NotOK, pre |-> FALSE, exh |-> FALSE, slept |-> FALSE]

\* The history of grants: a function from instants to units.
AddGrant(g, t, n) ==
    [x \in DOMAIN g \cup {t} |-> (IF x \in DOMAIN g THEN g[x] ELSE 0) + (IF x = t THEN n ELSE 0)]

RECURSIVE SumOver(_, _)
SumOver(g, S) == IF S = {} THEN 0 ELSE LET x == CHOOSE y \in S : TRUE IN g[x] + SumOver(g, S \ {x})

TotalGranted == SumOver(granted, DOMAIN granted)

\* Units granted whose instant lies in lo..hi.
GrantedIn(lo, hi) == SumOver(granted, {x \in DOMAIN granted : lo <= x /\ x <= hi})

NoPanic == \A q \in Procs : pc[q] # "panicked"

MarkOf(l) == [at |-> l.lastUpdated, tokens |-> l.tokens, limit |-> l.limit, burst |-> l.burst]

\* Construction: NewLimiter(a, r, b) at clock reading t0; callers 1..k exist.
InitWith(algos, rates, bursts, starts, k) ==
    /\ now \in starts
    /\ lim \in {NewLimiter(a, r, b, now) : a \in algos, r \in rates, b \in bursts}
    /\ mu = 0
    /\ pc = [p \in Procs |-> IF p <= k THEN "idle" ELSE "off"]
    /\ call = [p \in Procs |-> ZeroCall]
    /\ ret = [p \in Procs |-> ZeroRet]
    /\ granted = << >>
    /\ committed = 0
    /\ mark = MarkOf(lim)

(* ---- the clock --------------------------------------------------------- *)
Tick ==
    /\ NoPanic
    /\ now < MaxTime
    /\ now' = now + 1
    /\ UNCHANGED <<lim, mu, pc, call, ret, granted, committed, mark>>

(* ---- operations ------------------------------------------------------- *)
(* An operation other than WaitN is one critical section: Lock, the body,  *)
(* Unlock.  It is one step, taken when the mutex is free and leaving it    *)
(* free.  t is the caller's timestamp: an explicit argument of the         *)
(* ...At/...N forms, a reading of time.Now() taken before Lock() in the    *)
(* others (so it may be older than the clock when the lock is obtained).   *)
(* after is where the caller goes on return ("idle": it may call again).   *)
\* The model issues no call that could bring the units deducted from the
\* engine to more than MaxExtra beyond the burst (a bound of the model, not
\* of the code).  A call for more than the burst deducts nothing, and a
\* window engine with a positive window has no more deducted units than the
\* clock's range allows, so neither needs the bound.
Enter(p, n) ==
    /\ NoPanic
    /\ pc[p] = "idle"
    /\ mu = 0
    /\ \/ n > lim.burst
       \/ committed + n <= lim.burst + MaxExtra
       \/ lim.algo \in {"SlidingWindow", "FixedWindow"} /\ lim.window > 0

Return(p, after, res, op, t, n) ==
    /\ pc' = [pc EXCEPT ![p] = IF res.panic THEN "panicked" ELSE after]
    /\ ret' = [ret EXCEPT ![p] = [ZeroRet EXCEPT !.op = op, !.t = t, !.n = n, !.ok = res.ok,
                                                 !.err = IF res.panic THEN "panic" ELSE "none",
                                                 !.val = res.val, !.r = res.r]]

DoAllowN(p, t, n, after) ==
    /\ Enter(p, n)
    /\ LET res == AllowN(lim, t, n)
       IN  /\ lim' = res.lim
           /\ Return(p, after, res, "AllowN", t, n)
           /\ granted' = IF res.ok THEN AddGrant(granted, t, n) ELSE granted
           /\ committed' = IF res.ok THEN committed + n ELSE committed
           /\ mark' = MarkOf(res.lim)
    /\ UNCHANGED <<now, mu, call>>

DoReserveN(p, t, n, after) ==
    /\ Enter(p, n)
    /\ LET res == ReserveN(lim, t, n)
       IN  /\ lim' = res.lim
           /\ Return(p, after, res, "ReserveN", t, n)
           /\ granted' = IF res.r.ok THEN AddGrant(granted, res.r.timeToAct, n) ELSE granted
           /\ committed' = IF res.r.ok THEN committed + n ELSE committed
           /\ mark' = MarkOf(res.lim)
    /\ UNCHANGED <<now, mu, call>>

DoTokensAt(p, t, after) ==
    /\ Enter(p, 0)
    /\ LET res == TokensAt(lim, t)
       IN  /\ lim' = res.lim
           /\ Return(p, after, res, "TokensAt", t, 0)
    /\ UNCHANGED <<now, mu, call, granted, committed, mark>>

DoSetLimitAt(p, t, newLimit, after) ==
    /\ Enter(p, 0)
    /\ LET res == SetLimitAt(lim, t, newLimit)
       IN  /\ lim' = res.lim
           /\ Return(p, after, res, "SetLimitAt", t, 0)
           /\ mark' = MarkOf(res.lim)
    /\ UNCHANGED <<now, mu, call, granted, committed>>

DoSetBurstAt(p, t, newBurst, after) ==
    /\ Enter(p, 0)
    /\ LET res == SetBurstAt(lim, t, newBurst)
       IN  /\ lim' = res.lim
           /\ Return(p, after, res, "SetBurstAt", t, 0)
           /\ mark' = MarkOf(res.lim)
    /\ UNCHANGED <<now, mu, call, granted, committed>>

(* ---- WaitN ------------------------------------------------------------- *)
(* WaitN's first critical section, and the one of each retry.  c is the    *)
(* caller's record of the call; the step returns, or leaves the caller at  *)
(* "delay" (about to compute r.Delay()) or "select" (suspended).          *)
WaitRet(c, err, slept) ==
    [ZeroRet EXCEPT !.op = "WaitN", !.t = c.t, !.n = c.n, !.ok = (err = "nil"), !.err = err,
                    !.r = c.r, !.pre = c.pre, !.exh = c.exh, !.slept = slept]

WaitSection(p, c, after) ==
    LET w == WaitN(lim, c.t, c.n)
        c2 == [c EXCEPT !.r = w.r, !.deadline = w.deadline]
    IN  /\ lim' = w.lim
        /\ IF w.panic \/ w.how \in {"exceeds", "nil"}
           THEN /\ pc' = [pc EXCEPT ![p] = IF w.panic THEN "panicked" ELSE after]
                /\ ret' = [ret EXCEPT ![p] =
                              WaitRet(c2, IF w.panic THEN "panic" ELSE w.how, c.slept)]
                /\ call' = [call EXCEPT ![p] = ZeroCall]
           ELSE /\ pc' = [pc EXCEPT ![p] = IF w.how = "delay" THEN "delay" ELSE "select"]
                /\ call' = [call EXCEPT ![p] = [c2 EXCEPT !.slept = (w.how = "sleep")]]
                /\ ret' = ret
        /\ granted' = IF ~w.panic /\ w.how = "nil" THEN AddGrant(granted, c.t, c.n)
                                                  ELSE granted
        /\ committed' = IF ~w.panic /\ w.how \in {"nil", "delay"} THEN committed + c.n
                                                                 ELSE committed
        /\ mark' = MarkOf(w.lim)

\* The call.  t is the reserving engines' time.Now() argument of ReserveN;
\* the window engines read the clock under the lock.  done: the context is
\* already cancelled.  exh: no unit is admissible at the call.
StartWaitN(p, t, n, done, after) ==
    /\ Enter(p, n)
    /\ LET tt == IF Reserving(lim) THEN t ELSE now
       IN  WaitSection(p, [ZeroCall EXCEPT !.t = tt, !.n = n, !.done = done, !.pre = done,
                                           !.exh = ~AllowN(lim, tt, 1).ok], after)
    /\ UNCHANGED <<now, mu>>

WaitReturn(p, after, err) ==
    /\ pc' = [pc EXCEPT ![p] = after]
    /\ ret' = [ret EXCEPT ![p] = WaitRet(call[p], err, pc[p] = "select")]
    /\ call' = [call EXCEPT ![p] = ZeroCall]
    /\ granted' = IF err = "nil" THEN AddGrant(granted, now, call[p].n) ELSE granted

\* delay := r.Delay(); if delay == 0 { return nil }
WaitDelay(p, after) ==
    /\ NoPanic
    /\ pc[p] = "delay"
    /\ IF DelayFrom(call[p].r, now) = 0
       THEN WaitReturn(p, after, "nil")
       ELSE /\ pc' = [pc EXCEPT ![p] = "select"]
            /\ call' = [call EXCEPT ![p].deadline = now + DelayFrom(call[p].r, now)]
            /\ UNCHANGED <<ret, granted>>
    /\ UNCHANGED <<lim, now, mu, committed, mark>>

\* select: case <-time.After(...).  The reserving engines return nil; the
\* window engines call WaitN again: a critical section at the clock's reading.
WaitTimer(p, after) ==
    /\ NoPanic
    /\ pc[p] = "select"
    /\ now >= call[p].deadline
    /\ IF Reserving(lim)
       THEN WaitReturn(p, after, "nil") /\ UNCHANGED <<lim, committed, mark>>
       ELSE mu = 0 /\ WaitSection(p, [call[p] EXCEPT !.t = now], after)
    /\ UNCHANGED <<now, mu>>

\* select: case <-ctx.Done().  r.Cancel(), then return ctx.Err().
WaitCancelled(p, after) ==
    /\ NoPanic
    /\ pc[p] = "select"
    /\ call[p].done
    /\ lim' = CancelAt(call[p].r, lim, now)
    /\ WaitReturn(p, after, "cancelled")
    /\ UNCHANGED <<now, mu, committed, mark>>

\* The caller's context is cancelled (or its deadline passes) during WaitN.
CtxCancel(p) ==
    /\ NoPanic
    /\ pc[p] \in {"delay", "select"}
    /\ ~call[p].done
    /\ call' = [call EXCEPT ![p].done = TRUE]
    /\ UNCHANGED <<lim, now, mu, pc, ret, granted, committed, mark>>

(* ---- the general specification ----------------------------------------- *)
(* One limiter of any engine, rate and burst, and one caller issuing       *)
(* allow, reserve, tokens and wait calls with current or historical        *)
(* timestamps; a wait's context may be cancelled before or during it.      *)
Init == InitWith(Algorithms, Rates, Bursts, {0}, 1)

WaitSteps(p, after) ==
    \/ WaitDelay(p, after)
    \/ WaitTimer(p, after)
    \/ WaitCancelled(p, after)
    \/ CtxCancel(p)

Next ==
    \/ Tick
    \/ \E p \in Procs, t \in Stamps(now), n \in Units : DoAllowN(p, t, n, "idle")
    \/ \E p \in Procs, t \in Stamps(now), n \in Units : DoReserveN(p, t, n, "idle")
    \/ \E p \in Procs, t \in Stamps(now) : DoTokensAt(p, t, "idle")
    \/ \E p \in Procs, n \in Units, done \in BOOLEAN : StartWaitN(p, now, n, done, "idle")
    \/ \E p \in Procs : WaitSteps(p, "idle")

Spec == Init /\ [][Next]_vars

(* ---- fresh limiter, allow calls only ----------------------------------- *)
(* A limiter of finite rate built at the clock's reading and one caller    *)
(* calling allow/allowN at the clock's reading.  The clock moves only when *)
(* the rate is 0: otherwise all calls happen with no elapsed time.         *)
InitBurst == InitWith(Algorithms, FiniteRates, Bursts, {0, 1}, 1)

NextBurst ==
    \/ lim.limit = 0 /\ Tick
    \/ \E n \in Units : DoAllowN(1, now, n, "idle")

SpecBurst == InitBurst /\ [][NextBurst]_vars

\* C1: on a fresh limiter with burst B, at rate 0 or with no elapsed time,
\* an allowN(n) succeeds exactly while the cumulative units admitted stay
\* <= B (so exactly the first B allow() calls succeed and the next fails).
C1_BurstBound ==
    \A p \in Procs :
        ret[p].op = "AllowN" =>
            IF ret[p].ok THEN committed <= lim.burst
                         ELSE committed + ret[p].n > lim.burst

(* ---- concurrent allow() callers, no replenishment ---------------------- *)
(* NumProcs callers each call Allow() once on a fresh limiter of rate <= 0. *)
(* Allow() reads time.Now() and then takes the lock, so a caller's         *)
(* timestamp may be older than the clock when its critical section runs.   *)
InitConc == InitWith(Algorithms, NonPositiveRates, Bursts, {0}, NumProcs)

NextConc ==
    \/ Tick
    \/ \E p \in Procs, t \in Stamps(now) : DoAllowN(p, t, 1, "done")

SpecConc == InitConc /\ [][NextConc]_vars

\* C2: K concurrent allow() callers on a fresh limiter of burst B and rate
\* <= 0 never get more than B admissions, and once all have returned exactly
\* min(K, B) of them were admitted.
C2_ConcurrentBurst ==
    /\ committed <= lim.burst
    /\ (\A p \in Procs : pc[p] = "done") => committed = Min(NumProcs, lim.burst)

(* ---- unlimited rate ---------------------------------------------------- *)
(* A limiter built with rate Inf and one caller calling allow with current *)
(* or historical timestamps.                                               *)
InitInf == InitWith(Algorithms, {Inf}, Bursts, {0}, 1)

NextInf ==
    \/ Tick
    \/ \E t \in Stamps(now) : DoAllowN(1, t, 1, "idle")

SpecInf == InitInf /\ [][NextInf]_vars

\* C3: with rate = Inf every allow() returns true.
C3_UnlimitedAlwaysAllows == \A p \in Procs : ret[p].op = "AllowN" => ret[p].ok

(* ---- zero or negative rate --------------------------------------------- *)
(* A limiter of rate <= 0 and one caller issuing allow, reserve and wait   *)
(* calls with current or historical timestamps.                            *)
InitNoRefill == InitWith(Algorithms, NonPositiveRates, Bursts, {0}, 1)

NextNoRefill ==
    \/ Tick
    \/ \E t \in Stamps(now), n \in Units : DoAllowN(1, t, n, "idle")
    \/ \E t \in Stamps(now), n \in Units : DoReserveN(1, t, n, "idle")
    \/ \E n \in Units, done \in BOOLEAN : StartWaitN(1, now, n, done, "idle")
    \/ WaitSteps(1, "idle")

SpecNoRefill == InitNoRefill /\ [][NextNoRefill]_vars

\* C4: with rate <= 0 and burst B the units admitted so far (allow returning
\* true, wait returning success, ok reservations whose time-to-act has been
\* reached) never exceed B.
C4_NoReplenishment == GrantedIn(0, now) <= lim.burst

(* ---- wait -------------------------------------------------------------- *)
(* A limiter of any engine and rate, and one caller that calls allow and   *)
(* wait in real time; a wait's context may be cancelled before the call or *)
(* during it.                                                              *)
InitWait == InitWith(Algorithms, AllRates, Bursts, {0}, 1)

NextWait ==
    \/ Tick
    \/ \E n \in Units : DoAllowN(1, now, n, "idle")
    \/ \E n \in Units, done \in BOOLEAN : StartWaitN(1, now, n, done, "idle")
    \/ WaitSteps(1, "idle")

SpecWait == InitWait /\ [][NextWait]_vars

\* C5: wait() (n = 1) called with an already cancelled context on a limiter
\* where no unit is admissible at the call returns the cancellation error.
C5_CancelledWait ==
    \A p \in Procs :
        (ret[p].op = "WaitN" /\ ret[p].n = 1 /\ ret[p].pre /\ ret[p].exh)
            => ret[p].err = "cancelled"

\* C6: waitN(n) with n greater than the burst returns the capacity-exceeded
\* error without the caller having been suspended or the request retried.
C6_WaitExceeds ==
    \A p \in Procs :
        (ret[p].op = "WaitN" /\ ret[p].n > lim.burst)
            => (ret[p].err = "exceeds" /\ ~ret[p].slept)

(* ---- reserve ----------------------------------------------------------- *)
(* A limiter of any engine and rate, and one caller that calls allowN and  *)
(* reserveN with current or historical timestamps.                         *)
InitReserve == InitWith(Algorithms, AllRates, Bursts, {0}, 1)

NextReserve ==
    \/ Tick
    \/ \E t \in Stamps(now), n \in Units : DoAllowN(1, t, n, "idle")
    \/ \E t \in Stamps(now), n \in Units : DoReserveN(1, t, n, "idle")

SpecReserve == InitReserve /\ [][NextReserve]_vars

\* The step is caller p's ReserveN (a ReserveN that changes neither the
\* engine nor the caller's last return value changes nothing at all).
ReserveStep(p) == ret'[p].op = "ReserveN" /\ (ret'[p] # ret[p] \/ lim' # lim)

\* The accounting state: token count, queue, window entries, counter.
Accounting(l) == <<l.tokens, l.queue, l.timestamps, l.currentCount>>

InitTB == InitWith({"TokenBucket"}, FiniteRates \cup NonPositiveRates, Bursts, {0}, 1)

NextTB ==
    \/ Tick
    \/ \E t \in Stamps(now), n \in Units : DoAllowN(1, t, n, "idle")
    \/ \E t \in Stamps(now), n \in Units : DoReserveN(1, t, n, "idle")
    \/ DoTokensAt(1, now, "idle")

SpecTB == InitTB /\ [][NextTB]_vars

\* C8: reserveN(at, n) with n <= burst on a token bucket where no unit is
\* admissible at at returns ok with a delay > 0, and allowN(n) at at + delay
\* on the bucket as it was before the reservation succeeds.
C8_ReservationDelay ==
    [][\A p \in Procs :
          (ReserveStep(p) /\ ret'[p].n <= lim.burst /\ ~AllowN(lim, ret'[p].t, 1).ok)
              => /\ ret'[p].r.ok
                 /\ DelayFrom(ret'[p].r, ret'[p].t) > 0
                 /\ AllowN(lim, ret'[p].t + DelayFrom(ret'[p].r, ret'[p].t),
                           ret'[p].n).ok]_vars

\* The step is caller p's AllowN.
AllowStep(p) == ret'[p].op = "AllowN" /\ (ret'[p] # ret[p] \/ lim' # lim)

\* The bucket as its constructor left it.
Fresh == mark.at = 0 /\ mark.tokens = lim.burst * Second /\ committed = 0

\* tokens() reports min(B, R x t) when the bucket was emptied t ago, however
\* many queries came in between; more generally the value the last admission
\* left plus R x t, capped at B.
Replenished(p) ==
    ret[p].op = "TokensAt" =>
        /\ ret[p].val = Min(lim.burst * Second,
                            mark.tokens + lim.limit * (ret[p].t - mark.at))
        /\ mark.tokens = 0 =>
               ret[p].val = Min(lim.burst * Second, lim.limit * (ret[p].t - mark.at))

\* C9: on a token bucket of finite rate R and burst B, tokensAt(T + t) after
\* the bucket was emptied at T, with no admission in between, is min(B, R x t)
\* whatever queries split the interval; a fresh bucket reports B (at its
\* construction, and at any later time if R >= 0); and a successful allowN(n)
\* lowers what tokensAt reports at the same instant by n.
C9_Replenishment ==
    /\ [](\A p \in Procs :
            /\ Replenished(p)
            /\ (ret[p].op = "TokensAt" /\ Fresh /\ (lim.limit >= 0 \/ ret[p].t = 0))
                   => ret[p].val = lim.burst * Second)
    /\ [][\A p \in Procs :
            (AllowStep(p) /\ ret'[p].ok)
                => TokensAt(lim', ret'[p].t).val
                       = TokensAt(lim, ret'[p].t).val - ret'[p].n * Second]_vars

\* A bucket of positive rate was emptied, and a later query reports a
\* partial refill.
C9_Witness ==
    /\ ret[1].op = "TokensAt"
    /\ lim.limit > 0
    /\ mark.tokens = 0
    /\ ret[1].t > mark.at
    /\ ret[1].val > 0
    /\ ret[1].val < lim.burst * Second

(* ---- sliding window ---------------------------------------------------- *)
(* A sliding window limiter of positive finite rate and one caller calling *)
(* allow() again and again as the clock advances.                          *)
InitSW == InitWith({"SlidingWindow"}, PositiveRates, Bursts, {0}, 1)

NextSW ==
    \/ Tick
    \/ DoAllowN(1, now, 1, "idle")

SpecSW == InitSW /\ [][NextSW]_vars

\* C10: on a sliding window limiter the calls admitted in any trailing
\* interval [t - window, t], window = burst / rate, are never more than burst.
C10_WindowContainment ==
    \A t \in 0..now : GrantedIn(t - lim.window, t) <= lim.burst

\* More than burst calls have been admitted over time (entries did expire),
\* the window is full again and the last allow() was refused.
C10_Witness ==
    /\ committed > lim.burst
    /\ Len(lim.timestamps) = lim.burst
    /\ ret[1].op = "AllowN"
    /\ ~ret[1].ok

(* ---- fixed window ------------------------------------------------------ *)
(* A fixed window limiter of positive finite rate, built at a clock        *)
(* reading that need not be a multiple of its window, and one caller       *)
(* calling allow() again and again as the clock advances.                  *)
InitFW == InitWith({"FixedWindow"}, PositiveRates, Bursts, {0, 1}, 1)

NextFW ==
    \/ Tick
    \/ DoAllowN(1, now, 1, "idle")

SpecFW == InitFW /\ [][NextFW]_vars

\* The boundary of the current window has been reached at t.
Crossing(l, t) == t - l.windowStart >= l.window

MaxDelay == (MaxBurst + MaxExtra) * Second + Millisecond

Horizon == MaxTime + MaxDelay

TickLive ==
    /\ NoPanic
    /\ now < Horizon
    /\ now' = now + 1
    /\ UNCHANGED <<lim, mu, pc, call, ret, granted, committed, mark>>

InitLive == InitWith(Algorithms, PositiveRates, Bursts, {0}, 1)

NextLive ==
    \/ TickLive
    \/ \E n \in Units : now <= MaxTime /\ DoAllowN(1, now, n, "idle")
    \/ \E n \in Units : now <= MaxTime /\ StartWaitN(1, now, n, FALSE, "idle")
    \/ WaitDelay(1, "idle")
    \/ WaitTimer(1, "idle")

SpecLive ==
    /\ InitLive
    /\ [][NextLive]_vars
    /\ WF_vars(TickLive)
    /\ WF_vars(WaitDelay(1, "idle"))
    /\ WF_vars(WaitTimer(1, "idle"))

\* Caller p is inside WaitN, past its first critical section.
Waiting(p) == pc[p] \in {"delay", "select"}

WaitSucceeded(p) == pc[p] = "idle" /\ ret[p].op = "WaitN" /\ ret[p].err = "nil"

\* Every wait that suspends returns success in the end.
EventuallyAdmitted == \A p \in Procs : Waiting(p) ~> WaitSucceeded(p)

\* The instant of the latest admission.
LastAdmit == CHOOSE x \in DOMAIN granted : \A y \in DOMAIN granted : y <= x

\* 1/R as a duration.
Period(l) == Trunc(Second, l.limit)

\* C12 (as stated): with rate R > 0 a wait(n), n <= burst, whose context is
\* never cancelled and with no other caller, returns success in the end; on a
\* limiter of burst 1 that was exhausted, the time the waiter is to be let in
\* is no later than 1/R (and the engines' margin) after the exhausting
\* admission.
C12_WaitAdmits ==
    /\ EventuallyAdmitted
    /\ [](\A p \in Procs :
            (pc[p] = "select" /\ lim.burst = 1 /\ call[p].exh /\ granted # << >>)
                => call[p].deadline <= LastAdmit + Period(lim) + Millisecond)

\* C12 (amended): with rate R > 0 a wait(n), n <= burst, whose context is
\* never cancelled and with no other caller, returns success in the end; on a
\* limiter of burst 1 the time the waiter is to be let in is no later than 1/R
\* (and the engines' margin) after the wait's own clock reading.
C12_WaitAdmitsFromCall ==
    /\ EventuallyAdmitted
    /\ [](\A p \in Procs :
            (pc[p] = "select" /\ lim.burst = 1)
                => call[p].deadline <= call[p].t + Period(lim) + Millisecond)

\* A wait on an exhausted limiter slept and has returned success.
C12_Witness ==
    /\ ret[1].op = "WaitN"
    /\ ret[1].exh
    /\ ret[1].slept
    /\ ret[1].err = "nil"
    /\ pc[1] = "idle"

(* ---- a waiter and a later caller --------------------------------------- *)
(* Caller 1 waits (its context is never cancelled); caller 2 issues allow   *)
(* calls at the clock's reading, before and during caller 1's wait.  Rates *)
(* are positive and finite.                                                *)
InitSteal == InitWith(Algorithms, PositiveRates, Bursts, {0}, NumProcs)

NextSteal ==
    \/ Tick
    \/ \E n \in Units : StartWaitN(1, now, n, FALSE, "idle")
    \/ \E n \in Units : DoAllowN(2, now, n, "idle")
    \/ WaitDelay(1, "idle")
    \/ WaitTimer(1, "idle")

SpecSteal == InitSteal /\ [][NextSteal]_vars

\* The step in which caller p's WaitN leaves its first critical section
\* without returning: from here on it is waiting.
WaitBegins(p) == pc[p] = "idle" /\ pc'[p] \in {"delay", "select"}

\* That critical section left the engine, advanced to the call's instant,
\* with k units less capacity.
Commits(p, k) ==
    Remaining(lim') = Remaining(Advance(lim, call'[p].t)) - k * Second

\* The step taken by caller p when its computed delay has elapsed (or was
\* zero): it returns, or goes back to sleep.
WaitEnds(p) ==
    \/ pc[p] = "delay" /\ pc'[p] = "idle"
    \/ pc[p] = "select" /\ call'[p] # call[p]

\* C13 (as stated): for every engine, a wait(n) with n <= burst that does
\* not return at once has committed its n units to the engine's accounting
\* when it starts waiting, and when its computed delay has elapsed it
\* returns success, whatever other callers did in the meantime.
C13_WaitReservesUpFront ==
    [][\A p \in Procs :
          /\ WaitBegins(p) => Commits(p, call'[p].n)
          /\ WaitEnds(p) => WaitSucceeded(p)']_vars

\* C13 (amended): that holds of the token bucket and the leaky bucket.  A
\* sliding or fixed window's wait commits nothing when it starts waiting
\* (it only advances the engine), and on waking it retries the admission
\* check against whatever the engine then holds.
C13_BucketsReserveUpFront ==
    [][\A p \in Procs :
          IF Reserving(lim)
          THEN /\ WaitBegins(p) => Commits(p, call'[p].n)
               /\ WaitEnds(p) => WaitSucceeded(p)'
          ELSE /\ WaitBegins(p) => Commits(p, 0)
               /\ WaitEnds(p) =>
                      \/ WaitSucceeded(p)'
                      \/ pc'[p] = "select"
                           /\ Remaining(Advance(lim, now)) < call[p].n * Second]_vars

\* A bucket's waiter has slept and returned success, and the other caller's
\* last allow came after the wait began.
C13_Witness ==
    /\ Reserving(lim)
    /\ ret[1].op = "WaitN" /\ ret[1].slept /\ ret[1].err = "nil" /\ pc[1] = "idle"
    /\ ret[2].op = "AllowN" /\ ret[2].t > ret[1].t

\* A window engine's waiter woke up, found the capacity taken by the other
\* caller's allow at that very instant, and went back to sleep.
C13_Stolen ==
    /\ ~Reserving(lim)
    /\ pc[1] = "select" /\ call[1].slept /\ call[1].t > 0
    /\ ret[2].op = "AllowN" /\ ret[2].ok /\ ret[2].t = call[1].t

(* ---- the mutex, step by step ------------------------------------------- *)
(* Lock() and the critical section it opens, as two steps: a caller at      *)
(* "waitLocked" or "allowLocked" holds the mutex, and the section's step    *)
(* ends with the Unlock() of the path it takes.  The other actions are      *)
(* whole critical sections: they need the mutex free and leave it free.     *)
(* Caller 1 waits, caller 2 issues allow(1) calls; rates are positive.      *)
Lock(p, at, t, n) ==
    /\ Enter(p, n)
    /\ mu' = p
    /\ pc' = [pc EXCEPT ![p] = at]
    /\ call' = [call EXCEPT ![p] = [ZeroCall EXCEPT !.t = t, !.n = n]]
    /\ UNCHANGED <<lim, now, ret, granted, committed, mark>>

\* A WaitN that goes to sleep without Unlock().
LockedWaitN_SleepsLocked(p, after) ==
    /\ pc[p] = "waitLocked"
    /\ mu = p
    /\ LET tt == IF Reserving(lim) THEN call[p].t ELSE now
       IN  WaitSection(p, [call[p] EXCEPT !.t = tt, !.exh = ~AllowN(lim, tt, 1).ok], after)
    /\ mu' = IF pc'[p] = "select" THEN p ELSE 0
    /\ UNCHANGED now

\* WaitN's first critical section: every path out of it unlocks (the
\* buckets' ReserveN by its deferred Unlock, the windows' WaitN before each
\* return and before the select).
LockedWaitN(p, after) ==
    /\ pc[p] = "waitLocked"
    /\ mu = p
    /\ LET tt == IF Reserving(lim) THEN call[p].t ELSE now
       IN  WaitSection(p, [call[p] EXCEPT !.t = tt, !.exh = ~AllowN(lim, tt, 1).ok], after)
    /\ mu' = 0
    /\ UNCHANGED now

LockedAllowN(p, after) ==
    /\ pc[p] = "allowLocked"
    /\ mu = p
    /\ LET res == AllowN(lim, call[p].t, call[p].n)
       IN  /\ lim' = res.lim
           /\ Return(p, after, res, "AllowN", call[p].t, call[p].n)
           /\ granted' = IF res.ok THEN AddGrant(granted, call[p].t, call[p].n) ELSE granted
           /\ committed' = IF res.ok THEN committed + call[p].n ELSE committed
           /\ mark' = MarkOf(res.lim)
    /\ call' = [call EXCEPT ![p] = ZeroCall]
    /\ mu' = 0
    /\ UNCHANGED now

InitLock == InitWith(Algorithms, PositiveRates, Bursts, {0}, NumProcs)

NextLock ==
    \/ Tick
    \/ \E n \in Bursts : Lock(1, "waitLocked", now, n)
    \/ LockedWaitN(1, "idle")
    \/ Lock(2, "allowLocked", now, 1)
    \/ LockedAllowN(2, "idle")
    \/ WaitDelay(1, "idle")
    \/ WaitTimer(1, "idle")

SpecLock == InitLock /\ [][NextLock]_vars

\* C14: whenever a caller is suspended inside WaitN, the mutex is free or
\* held by another caller that is not suspended; and when it is free, an
\* idle caller's tokens query on the same engine can run to completion.
C14_LockFreeWhileAsleep ==
    \A p \in Procs :
        Waiting(p) =>
            /\ mu # p
            /\ mu # 0 => pc[mu] \in {"waitLocked", "allowLocked"}
            /\ mu = 0 => \A q \in Procs \ {p} :
                             pc[q] = "idle" => ENABLED DoTokensAt(q, now, "idle")

\* Caller 1 sleeps in WaitN's select while caller 2 holds the mutex in the
\* middle of an allow that began after caller 1 went to sleep.
C14_Witness ==
    /\ pc[1] = "select" /\ now < call[1].deadline
    /\ mu = 2 /\ pc[2] = "allowLocked" /\ call[2].t > call[1].t

(* ---- cancelling -------------------------------------------------------- *)
(* One caller reserves and cancels the Reservation it was given (at any    *)
(* instant), or waits with a context that may be cancelled during the      *)
(* wait.  Rates are positive and finite.                                   *)
\* r.CancelAt(t) on the Reservation the caller's last ReserveN returned.
\* CancelAt takes no lock.
DoCancelAt(p, t, after) ==
    /\ NoPanic
    /\ pc[p] = "idle"
    /\ ret[p].op \in {"ReserveN", "CancelAt"}
    /\ lim' = CancelAt(ret[p].r, lim, t)
    /\ pc' = [pc EXCEPT ![p] = after]
    /\ ret' = [ret EXCEPT ![p].op = "CancelAt"]
    /\ UNCHANGED <<now, mu, call, granted, committed, mark>>

InitCancel == InitWith(Algorithms, PositiveRates, Bursts, {0}, 1)

NextCancel ==
    \/ Tick
    \/ \E n \in Units : DoReserveN(1, now, n, "idle")
    \/ \E t \in 0..MaxTime : DoCancelAt(1, t, "idle")
    \/ \E n \in Units : StartWaitN(1, now, n, FALSE, "idle")
    \/ WaitSteps(1, "idle")

SpecCancel == InitCancel /\ [][NextCancel]_vars

\* The step in which caller p cancels a Reservation.
CancelStep(p) == ret'[p].op = "CancelAt" /\ ret'[p] # ret[p]

\* The step in which caller p's suspended WaitN returns before its timer
\* has fired: the select took the ctx.Done() branch.
WaitCancelStep(p) ==
    pc[p] = "select" /\ now < call[p].deadline /\ pc'[p] # "select"

\* C15: cancelling a Reservation, ok or not, leaves the engine's state as
\* it was; and a wait cancelled while suspended returns the cancellation
\* error and leaves the engine's state, with the units its reservation
\* deducted, as it was.
C15_CancelRestoresNothing ==
    [][\A p \in Procs :
          /\ CancelStep(p) => lim' = lim
          /\ WaitCancelStep(p) =>
                 /\ ret'[p].op = "WaitN" /\ ret'[p].err = "cancelled"
                 /\ lim' = lim
                 /\ committed' = committed]_vars

\* A bucket's wait was cancelled while suspended on a committed reservation
\* for all of the burst, and the engine still has no capacity left at the
\* instant of the return.
C15_Witness ==
    /\ Reserving(lim)
    /\ ret[1].op = "WaitN" /\ ret[1].err = "cancelled" /\ ret[1].slept
    /\ ret[1].r.ok /\ ret[1].n = lim.burst
    /\ ~AllowN(lim, now, 1).ok

(* ---- configuration ----------------------------------------------------- *)
(* A limiter of any engine and burst, with a positive finite rate; one     *)
(* caller that sets the rate (to a negative or a positive value) and the    *)
(* burst, and calls allow, reserve, tokens and wait in between.  A call     *)
(* that panics (the leaky bucket's leak) ends the program.                 *)
SetRates == {-1, 2}

InitConfig == InitWith(Algorithms, PositiveRates, Bursts, {0}, 1)

NextConfig ==
    \/ Tick
    \/ \E r \in SetRates : DoSetLimitAt(1, now, r, "idle")
    \/ \E b \in Bursts : DoSetBurstAt(1, now, b, "idle")
    \/ DoAllowN(1, now, 1, "idle")
    \/ DoReserveN(1, now, 1, "idle")
    \/ DoTokensAt(1, now, "idle")
    \/ StartWaitN(1, now, 1, FALSE, "idle")
    \/ WaitDelay(1, "idle")
    \/ WaitTimer(1, "idle")

SpecConfig == InitConfig /\ [][NextConfig]_vars

\* The step is a SetLimitAt(r), resp. SetBurstAt(b), call of caller p that
\* returns.
SetsLimit(p, r) == DoSetLimitAt(p, now, r, "idle") /\ pc'[p] = "idle"

SetsBurst(p, b) == DoSetBurstAt(p, now, b, "idle") /\ pc'[p] = "idle"

\* C16: a new limiter's Limit() and Burst() are the constructor's arguments;
\* a returning SetLimitAt(r) leaves Limit() = r and Burst() as it was, a
\* returning SetBurstAt(b) leaves Burst() = b and Limit() as it was; and
\* every other step (allow, reserve, tokens, wait, the clock) leaves both
\* as they were.
C16_ConfigRoundTrip ==
    /\ \A a \in Algorithms, r \in AllRates, b \in Bursts :
           Limit(NewLimiter(a, r, b, 0)) = r /\ Burst(NewLimiter(a, r, b, 0)) = b
    /\ [][IF \E p \in Procs, r \in SetRates : DoSetLimitAt(p, now, r, "idle")
           THEN \A p \in Procs, r \in SetRates :
                    SetsLimit(p, r) => Limit(lim') = r /\ Burst(lim') = Burst(lim)
           ELSE IF \E p \in Procs, b \in Bursts : DoSetBurstAt(p, now, b, "idle")
           THEN \A p \in Procs, b \in Bursts :
                    SetsBurst(p, b) => Burst(lim') = b /\ Limit(lim') = Limit(lim)
           ELSE Limit(lim') = Limit(lim) /\ Burst(lim') = Burst(lim)]_vars

\* A sliding window whose rate was set negative and whose burst was raised
\* after construction (its window, positive and shorter than a second, is
\* the one of a smaller burst and a positive rate: the setters keep the
\* window when the rate is not positive), and an allow was granted since.
C16_Witness ==
    /\ lim.algo = "SlidingWindow"
    /\ Limit(lim) < 0 /\ Burst(lim) = MaxBurst
    /\ lim.window > 0 /\ lim.window < Second
    /\ ret[1].op = "AllowN" /\ ret[1].ok

(* ---- Reservation.DelayFrom --------------------------------------------- *)
(* One caller reserves (any n, so that reservations are ok and not ok, due *)
(* now and later) and asks the Reservation for its delay from any instant  *)
(* before, at or after the time to act.  Rates are positive and finite.    *)
\* r.DelayFrom(t) on the Reservation the caller's last ReserveN returned.
DoDelayFrom(p, t, after) ==
    /\ NoPanic
    /\ pc[p] = "idle"
    /\ ret[p].op \in {"ReserveN", "DelayFrom"}
    /\ pc' = [pc EXCEPT ![p] = after]
    /\ ret' = [ret EXCEPT ![p].op = "DelayFrom", ![p].t = t,
                           ![p].val = DelayFrom(ret[p].r, t)]
    /\ UNCHANGED <<lim, now, mu, call, granted, committed, mark>>

InitDelay == InitWith(Algorithms, PositiveRates, Bursts, {0}, 1)

NextDelay ==
    \/ Tick
    \/ \E n \in Units : DoReserveN(1, now, n, "idle")
    \/ \E t \in 0..Horizon : DoDelayFrom(1, t, "idle")

SpecDelay == InitDelay /\ [][NextDelay]_vars

\* C17: DelayFrom(at) of an ok reservation is max(0, timeToAct - at), hence
\* never negative and 0 from timeToAct on; of a reservation that is not ok
\* it is negative, whatever at is.
C17_DelayFrom ==
    \A p \in Procs :
        ret[p].op = "DelayFrom" =>
            IF ret[p].r.ok
            THEN /\ ret[p].val = Max(0, ret[p].r.timeToAct - ret[p].t)
                 /\ ret[p].val >= 0
                 /\ ret[p].t >= ret[p].r.timeToAct => ret[p].val = 0
            ELSE ret[p].val < 0

\* The delay of an ok reservation that was due in the future when it was
\* made, asked from an instant after its time to act.
C17_Witness ==
    /\ ret[1].op = "DelayFrom" /\ ret[1].r.ok
    /\ ret[1].r.timeToAct > 0 /\ ret[1].t > ret[1].r.timeToAct
    /\ ret[1].val = 0

(* ---- the token bucket's state ------------------------------------------ *)
(* A token bucket of any rate and burst; one caller issuing allowN and     *)
(* reserveN with current or historical timestamps, tokensAt, waitN,        *)
(* setLimitAt and setBurstAt.                                              *)
InitTokens == InitWith({"TokenBucket"}, AllRates, Bursts, {0}, 1)

NextTokens ==
    \/ Tick
    \/ \E t \in Stamps(now), n \in Units : DoAllowN(1, t, n, "idle")
    \/ \E t \in Stamps(now), n \in Units : DoReserveN(1, t, n, "idle")
    \/ DoTokensAt(1, now, "idle")
    \/ \E r \in SetRates : DoSetLimitAt(1, now, r, "idle")
    \/ \E b \in Bursts : DoSetBurstAt(1, now, b, "idle")
    \/ StartWaitN(1, now, 1, FALSE, "idle")
    \/ WaitDelay(1, "idle")
    \/ WaitTimer(1, "idle")

SpecTokens == InitTokens /\ [][NextTokens]_vars

\* C18 (as stated): the token count is never negative and never more than
\* the burst.
C18_TokensInRange == 0 <= lim.tokens /\ lim.tokens <= lim.burst * Second

\* C18 (amended): the token count is never more than the burst.  (It can be
\* negative: ReserveN, and WaitN through it, deduct n whatever the count.)
C18_TokensAtMostBurst == lim.tokens <= lim.burst * Second

\* A bucket of positive rate in deficit after a reservation.
C18_Deficit ==
    /\ lim.limit > 0 /\ lim.tokens < 0
    /\ ret[1].op = "ReserveN" /\ ret[1].r.ok /\ ret[1].t = now

\* A bucket that is exactly full just after SetBurstAt, although units were
\* deducted from it and its rate is not positive: the burst was lowered to
\* the count or below it.
C18_Witness ==
    /\ ret[1].op = "SetBurstAt" /\ lim.limit <= 0 /\ committed > 0
    /\ lim.tokens = lim.burst * Second

(* ---- the leaky bucket's state ------------------------------------------ *)
(* A leaky bucket of any rate and capacity; one caller issuing allowN and  *)
(* reserveN with current or historical timestamps, tokensAt, waitN,        *)
(* setLimitAt and setBurstAt.  A call whose leak panics ends the program.  *)
InitQueue == InitWith({"LeakyBucket"}, AllRates, Bursts, {0}, 1)

NextQueue ==
    \/ Tick
    \/ \E t \in Stamps(now), n \in Units : DoAllowN(1, t, n, "idle")
    \/ \E t \in Stamps(now), n \in Units : DoReserveN(1, t, n, "idle")
    \/ DoTokensAt(1, now, "idle")
    \/ \E r \in SetRates : DoSetLimitAt(1, now, r, "idle")
    \/ \E b \in Bursts : DoSetBurstAt(1, now, b, "idle")
    \/ StartWaitN(1, now, 1, FALSE, "idle")
    \/ WaitDelay(1, "idle")
    \/ WaitTimer(1, "idle")

SpecQueue == InitQueue /\ [][NextQueue]_vars

\* C19 (as stated): the queue is never longer than the capacity, and
\* tokensAt never reports a negative remaining capacity.
C19_QueueWithinCapacity ==
    /\ Len(lim.queue) <= lim.burst
    /\ \A p \in Procs : ret[p].op = "TokensAt" => ret[p].val >= 0

Overfull(l) == Len(l.queue) > l.burst

\* C19 (amended): the queue becomes longer than the capacity only in a
\* step that is a reserveN, or the reservation of a waitN, that returns an
\* ok Reservation; allowN, tokensAt and setLimitAt never lengthen a queue
\* beyond the capacity, and setBurstAt leaves the queue within the new
\* capacity.
C19_OnlyReserveOverfills ==
    [][/\ (Overfull(lim') /\ ~Overfull(lim)) =>
              \E p \in Procs :
                  \/ \E t \in Stamps(now), n \in Units :
                         DoReserveN(p, t, n, "idle") /\ ret'[p].r.ok
                  \/ WaitBegins(p) /\ call'[p].r.ok
       /\ Len(lim'.queue) > Max(Len(lim.queue), lim.burst) =>
              \A p \in Procs :
                  /\ \A t \in Stamps(now), n \in Units : ~DoAllowN(p, t, n, "idle")
                  /\ ~DoTokensAt(p, now, "idle")
                  /\ \A r \in SetRates : ~DoSetLimitAt(p, now, r, "idle")
       /\ Overfull(lim') =>
              \A p \in Procs, b \in Bursts : ~SetsBurst(p, b)]_vars

\* A bucket of positive rate with more entries than its capacity just after
\* a reservation that has to wait.
C19_Witness ==
    /\ lim.limit > 0 /\ lim.limit # Inf /\ Overfull(lim)
    /\ ret[1].op = "ReserveN" /\ ret[1].r.ok /\ ret[1].r.timeToAct > ret[1].t

(* ---- the window engines' state ----------------------------------------- *)
(* A sliding or fixed window of positive finite rate; one caller issuing   *)
(* allowN, reserveN, tokensAt, waitN, setLimitAt and setBurstAt at the     *)
(* clock's reading.                                                        *)
InitWindows == InitWith({"SlidingWindow", "FixedWindow"}, PositiveRates, Bursts, {0}, 1)

NextWindows ==
    \/ Tick
    \/ \E n \in Units : DoAllowN(1, now, n, "idle")
    \/ \E n \in Units : DoReserveN(1, now, n, "idle")
    \/ DoTokensAt(1, now, "idle")
    \/ \E r \in SetRates : DoSetLimitAt(1, now, r, "idle")
    \/ \E b \in Bursts : DoSetBurstAt(1, now, b, "idle")
    \/ StartWaitN(1, now, 1, FALSE, "idle")
    \/ WaitTimer(1, "idle")

SpecWindows == InitWindows /\ [][NextWindows]_vars

\* The accounted count: the sliding window's entries, the fixed window's
\* counter.
Count(l) == IF l.algo = "SlidingWindow" THEN Len(l.timestamps) ELSE l.currentCount

\* C20: in every reachable state of a sliding or fixed window, the
\* accounted count is at most the current burst.
C20_CountWithinBurst == Count(lim) <= lim.burst

(* ---- setters advance first --------------------------------------------- *)
(* Checked under SpecConfig.                                                *)
\* The bookkeeping of l brought to the instant at under l's own rate, burst
\* and window, with no elapsed time left uncredited: what "advance to at"
\* means for each engine.
AdvancedTo(l, at) ==
    CASE l.algo = "TokenBucket" ->
            [l EXCEPT !.lastUpdated = at,
                      !.tokens = IF l.limit = Inf THEN l.burst * Second
                                 ELSE Min(l.burst * Second,
                                          l.tokens + l.limit * (at - l.lastUpdated))]
      [] l.algo = "LeakyBucket" ->
            [l EXCEPT !.lastLeakTime = at,
                      !.queue = DropFirst(@, Min(Len(@),
                                    Max(0, Trunc(l.limit * (at - l.lastLeakTime), Second))))]
      [] l.algo = "SlidingWindow" ->
            [l EXCEPT !.timestamps = SelectSeq(@, LAMBDA ts : ts >= at - l.window)]
      [] OTHER ->
            IF at - l.windowStart >= l.window
            THEN [l EXCEPT !.currentCount = 0, !.windowStart = Truncate(at, l.window)]
            ELSE l

\* The new rate, resp. burst, installed in the advanced state a.
WithLimit(a, r) ==
    IF a.algo \in {"SlidingWindow", "FixedWindow"}
    THEN [a EXCEPT !.limit = r, !.window = WindowFor(r, a.burst, a.window)]
    ELSE [a EXCEPT !.limit = r]

WithBurst(a, b) ==
    CASE a.algo = "TokenBucket" -> [a EXCEPT !.burst = b, !.tokens = Min(@, b * Second)]
      [] a.algo = "LeakyBucket" -> [a EXCEPT !.burst = b, !.queue = SubSeq(@, 1, Min(Len(@), b))]
      [] OTHER -> [a EXCEPT !.burst = b, !.window = WindowFor(a.limit, b, a.window)]

\* C21: a returning setLimitAt(at, r) or setBurstAt(at, b) leaves the engine
\* as it is when its bookkeeping is first brought to at under the old rate,
\* burst and window and the new value is then installed; so the token
\* bucket's tokens are min(burst, tokens + r_old * (at - lastUpdated)), and
\* the instant from which later elapsed time is credited is at.
C21_SettersAdvanceFirst ==
    [][\A p \in Procs :
          /\ \A r \in SetRates :
                 SetsLimit(p, r) => lim' = WithLimit(AdvancedTo(lim, now), r)
          /\ \A b \in Bursts :
                 SetsBurst(p, b) => lim' = WithBurst(AdvancedTo(lim, now), b)]_vars

\* The same, of every engine but the leaky bucket.
C21_ExceptLeakyBucket ==
    [][lim.algo # "LeakyBucket" =>
          \A p \in Procs :
              /\ \A r \in SetRates :
                     SetsLimit(p, r) => lim' = WithLimit(AdvancedTo(lim, now), r)
              /\ \A b \in Bursts :
                     SetsBurst(p, b) => lim' = WithBurst(AdvancedTo(lim, now), b)]_vars

(* ---- fixed window alignment -------------------------------------------- *)
(* Checked under SpecFW: the limiter is constructed at instant 0 or 1.      *)
Aligned(l) == l.window > 0 => l.windowStart % l.window = 0

\* C22: a fixed window's windowStart is always an integer multiple of its
\* window, and after an advance at the instant now it satisfies
\* windowStart <= now < windowStart + window.
C22_GlobalAlignment ==
    /\ [](lim.algo = "FixedWindow" => Aligned(lim))
    /\ [][\A p \in Procs :
             AllowStep(p) =>
                 /\ lim'.windowStart <= ret'[p].t
                 /\ ret'[p].t < lim'.windowStart + lim'.window]_vars

\* What holds instead: the window start is the construction instant until
\* the first reset, and a multiple of the window from then on.
C22_AlignedAfterReset ==
    [][\A p \in Procs :
          AllowStep(p) =>
              /\ Crossing(lim, ret'[p].t) => Aligned(lim')
              /\ ~Crossing(lim, ret'[p].t) => lim'.windowStart = lim.windowStart
              /\ lim'.windowStart <= ret'[p].t
              /\ ret'[p].t < lim'.windowStart + lim'.window]_vars

(* ---- sliding window ordering ------------------------------------------- *)
(* Checked under SpecReserve: allowN and reserveN with current or          *)
(* historical timestamps.                                                  *)
Ascending(ts) == \A i, j \in DOMAIN ts : i < j => ts[i] <= ts[j]

\* C23: a sliding window's stored timestamps are in ascending order,
\* whatever timestamps the calls supplied.
C23_TimestampsAscending == lim.algo = "SlidingWindow" => Ascending(lim.timestamps)

\* An entry older than the window survives a cleanup at the clock's reading
\* behind a younger entry stored before it.
C23_ExpiredEntryKept ==
    /\ lim.algo = "SlidingWindow" /\ lim.window > 0
    /\ \E p \in Procs : ret[p].op = "AllowN" /\ ret[p].t = now /\ ~ret[p].ok
                            /\ ret[p].n = 1
    /\ \E i \in DOMAIN lim.timestamps : lim.timestamps[i] < now - lim.window
    /\ Cardinality({i \in DOMAIN lim.timestamps : lim.timestamps[i] >= now - lim.window})
           < lim.burst

(* ---- reserve on the window engines ------------------------------------- *)
(* A sliding or fixed window of finite rate (0 included); one caller       *)
(* issuing allowN and reserveN with current or historical timestamps.      *)
InitDegenerate == InitWith({"SlidingWindow", "FixedWindow"}, FiniteRates, Bursts, {0}, 1)

NextDegenerate ==
    \/ Tick
    \/ \E t \in Stamps(now), n \in Units : DoAllowN(1, t, n, "idle")
    \/ \E t \in Stamps(now), n \in Units : DoReserveN(1, t, n, "idle")

SpecDegenerate == InitDegenerate /\ [][NextDegenerate]_vars

\* C24: on a window engine reserveN(at, n) is ok exactly when allowN(at, n)
\* from the same state returns true, and leaves the state allowN leaves; an
\* ok reservation's time to act is at (delay 0 from at) and n units were
\* added to the advanced count; one that is not ok added nothing; no ok
\* reservation is due later than at.
C24_ReserveIsAllow ==
    [][\A p \in Procs, t \in Stamps(now), n \in Units :
          DoReserveN(p, t, n, "idle") =>
              LET a == AllowN(lim, t, n)
                  r == ret'[p].r
              IN  /\ r.ok = a.ok
                  /\ lim' = a.lim
                  /\ r.ok => /\ r.timeToAct = t
                             /\ DelayFrom(r, t) = 0
                             /\ Count(lim') = Count(Advance(lim, t)) + n
                  /\ ~r.ok => Count(lim') = Count(Advance(lim, t))]_vars

\* A reservation for no more than the burst, at a historical timestamp, was
\* refused on a window that still holds admissions.
C24_Witness ==
    /\ ret[1].op = "ReserveN" /\ ~ret[1].r.ok
    /\ ret[1].n <= lim.burst /\ ret[1].t < now
    /\ Count(lim) > 0

(* ---- the leaky bucket's rate ------------------------------------------- *)
(* A leaky bucket of positive finite rate; one caller issuing allowN and   *)
(* tokensAt at the clock's reading (timestamps never decrease).            *)
InitLeak == InitWith({"LeakyBucket"}, PositiveRates, Bursts, {0}, 1)

NextLeak ==
    \/ Tick
    \/ \E n \in Units : DoAllowN(1, now, n, "idle")
    \/ DoTokensAt(1, now, "idle")

SpecLeak == InitLeak /\ [][NextLeak]_vars

\* C25: the units admitted by allowN in any interval s..e are at most
\* capacity + rate * (e - s); in particular no more than the capacity is
\* admitted at one instant.
C25_RateBound ==
    \A s \in 0..now : \A e \in s..now :
        GrantedIn(s, e) * Second <= lim.burst * Second + lim.limit * (e - s)

\* C26: under SpecLeak, an allow(1) at the clock's reading is refused only
\* if less than 1/rate has passed since the last admission (from when the
\* queue was last filled, rate * elapsed units have drained, however many
\* calls were made in between).
C26_NoElapsedTimeLost ==
    [][\A p \in Procs :
          (DoAllowN(p, now, 1, "idle") /\ ~ret'[p].ok)
              => (granted # << >> /\ (now - LastAdmit) * lim.limit < Second)]_vars

\* The queue is still full a whole 1/rate after the last admission, after a
\* tokens query in between.
C26_StillFull ==
    /\ granted # << >> /\ (now - LastAdmit) * lim.limit >= Second
    /\ Len(lim.queue) = lim.burst /\ lim.lastLeakTime = now
    /\ ret[1].op = "TokensAt"

(* ---- the token bucket's rate ------------------------------------------- *)
(* A token bucket of positive finite rate built at instant 0; NumProcs      *)
(* callers issuing waitN, the first of them allowN and reserveN as well,    *)
(* at the clock's reading (timestamps never decrease), in any interleaving. *)
InitRate == InitWith({"TokenBucket"}, PositiveRates, Bursts, {0}, NumProcs)

NextRate ==
    \/ Tick
    \/ \E n \in Units : DoAllowN(1, now, n, "idle")
    \/ \E n \in Units : DoReserveN(1, now, n, "idle")
    \/ \E p \in Procs, n \in Units : StartWaitN(p, now, n, FALSE, "idle")
    \/ \E p \in Procs : WaitDelay(p, "idle")
    \/ \E p \in Procs : WaitTimer(p, "idle")

SpecRate == InitRate /\ [][NextRate]_vars

\* The units of the waits still asleep whose reservation's time to act is at
\* most t (a wait that has returned is in granted, at its return instant,
\* which is no earlier than its time to act).
AsleepBy(t) ==
    SumOver([p \in Procs |-> IF pc[p] \in {"delay", "select"} /\ call[p].r.ok
                                /\ call[p].r.timeToAct <= t
                             THEN call[p].n ELSE 0], Procs)

\* The units granted up to t: those of successful allowN calls at instants up
\* to t, and those of ok reservations and waits whose time to act is at most t.
GrantedBy(t) == GrantedIn(0, t) + AsleepBy(t)

\* C27: under SpecRate, for every instant t the units granted up to t are at
\* most burst + rate * t (the bucket is built at instant 0).
C27_TokenBucketRateBound ==
    \A t \in 0..Horizon : GrantedBy(t) * Second <= lim.burst * Second + lim.limit * t

\* A reservation has emptied the bucket and a wait is asleep on the deficit;
\* by the wait's time to act, a future instant, not one more unit fits the
\* bound.
C27_Witness ==
    /\ lim.tokens < 0
    /\ \E p \in Procs : ret[p].op = "ReserveN" /\ ret[p].r.ok
    /\ \E p \in Procs :
          /\ pc[p] = "select" /\ call[p].r.ok /\ call[p].r.timeToAct > now
          /\ (GrantedBy(call[p].r.timeToAct) + 1) * Second
                 > lim.burst * Second + lim.limit * call[p].r.timeToAct

====
